---- MODULE Spec2Model ----
(***************************************************************************)
(* A model of the VLP v1.1 python package (src/python/src/vlp):            *)
(*   runtime.py   make_message (the builder), validate_vlp and             *)
(*                _semantic_validate (the validator), _as_list;            *)
(*   sessions.py  AgentSession (next_seq, message_id) and                  *)
(*                AgentSessionRegistry (start_session, get_session,        *)
(*                end_session, create_claim), run by several threads.      *)
(*                                                                         *)
(* Three specifications share the variables:                               *)
(*   SpecBuild  one caller applying make_message / validate_vlp to inputs  *)
(*              drawn from bounded sets (the session part stays idle);     *)
(*   SpecSeq    threads calling next_seq and message_id on AgentSession    *)
(*              objects they share;                                        *)
(*   Spec       threads calling start_session, get_session, create_claim   *)
(*              and end_session on one registry.                           *)
(* In SpecSeq and Spec a step is a lock acquisition, a load or a store of  *)
(* shared state, or a read of it; the builder part is idle.                *)
(*                                                                         *)
(* Representation.  Python values that can be "absent", None, a scalar or  *)
(* a container are records with a tag field k.  A confidence c is the      *)
(* integer 100*c, so 0.9 is 90.  A type string is its lowercase, trimmed   *)
(* base text plus two flags: it has an uppercase letter, it has            *)
(* surrounding whitespace; str.lower() clears the first, str.strip() the   *)
(* second.                                                                 *)
(***************************************************************************)
EXTENDS Integers, Sequences, FiniteSets, TLC

VARIABLES
    \* ---- builder / validator (SpecBuild) ----
    bpc,      \* "input", "built", "validated", "revalidated"
    args,     \* the arguments of the make_message call under study
    heap,     \* the caller's safety object (a dict the caller keeps a reference to)
    heap0,    \* that object as it was when the last make_message call began
    out,      \* what the last make_message call returned or raised
    vres,     \* what the last validate_vlp call returned
    calls,    \* number of make_message calls made so far
    \* ---- sessions / registry (SpecSeq, Spec) ----
    seq,      \* AgentSession.seq of every session object
    slock,    \* AgentSession._lock: the thread holding it, or NoThread
    rlock,    \* AgentSessionRegistry._lock: the thread holding it, or NoThread
    sessions, \* AgentSessionRegistry._sessions: session id -> session object
    sstate,   \* every session object: unborn, partial, constructed, started, ended
    th,       \* the threads: current operation, position and locals
    hist,     \* history: per session, the values next_seq handed out, in order
    \* ---- the module global of sessions.py (SpecGlobal) ----
    registry_, \* _registry: None (NoRegistry) or an AgentSessionRegistry instance
    made,     \* number of AgentSessionRegistry instances get_registry has created
    gth,      \* the threads calling get_registry: position and the instance held
    \* ---- text functions (SpecText) ----
    tin,      \* the input of the function under study
    tout      \* its output, once applied

bvars == <<bpc, args, heap, heap0, out, vres, calls>>
svars == <<seq, slock, rlock, sessions, sstate, th, hist>>
xvars == <<registry_, made, gth, tin, tout>>
vars == <<bpc, args, heap, heap0, out, vres, calls,
          seq, slock, rlock, sessions, sstate, th, hist,
          registry_, made, gth, tin, tout>>

(***************************************************************************)
(* Values                                                                  *)
(***************************************************************************)

\* confidence: 100 * the float
HighConfidence == 90
DefaultConfidence == 100

TypeStr(base, upper, padded) == [base |-> base, upper |-> upper, padded |-> padded]
Plain(base) == TypeStr(base, FALSE, FALSE)

\* str.lower() and str.strip() on a type string
Lower(t) == [t EXCEPT !.upper = FALSE]
Strip(t) == [t EXCEPT !.padded = FALSE]

\* The enumerated message types (the docstring of make_message).
MessageTypes ==
    {"claim", "evidence", "query", "response", "correction", "notice", "session_context"}

\* confidence values a caller can pass
ConfAbsent == [k |-> "absent", v |-> 0]
ConfNone == [k |-> "none", v |-> 0]
ConfNum(n) == [k |-> "num", v |-> n]
ConfNumStr(n) == [k |-> "numstr", v |-> n]    \* a string such as "0.95"
ConfBadStr == [k |-> "badstr", v |-> 0]       \* a string such as "abc"

\* float(x): ok with the value, or the exception python raises
ToFloat(c) ==
    CASE c.k = "num" -> [ok |-> TRUE, v |-> c.v, err |-> ""]
      [] c.k = "numstr" -> [ok |-> TRUE, v |-> c.v, err |-> ""]
      [] c.k = "badstr" ->
            [ok |-> FALSE, v |-> 0, err |-> "could not convert string to float: 'abc'"]
      [] OTHER ->
            [ok |-> FALSE, v |-> 0,
             err |-> "float() argument must be a string or a real number, not 'NoneType'"]

\* provenance / constraints values: absent, None, a scalar, or a list
\* (v is the list when it is one, s the scalar when it is one)
PAbsent == [k |-> "absent", v |-> <<>>, s |-> ""]
PNone == [k |-> "none", v |-> <<>>, s |-> ""]
PScalar(x) == [k |-> "scalar", v |-> <<>>, s |-> x]
PList(xs) == [k |-> "list", v |-> xs, s |-> ""]

\* refers_to values: absent/None, or a string (possibly empty)
RNone == [k |-> "none", v |-> ""]
RStr(x) == [k |-> "str", v |-> x]
Falsy(r) == r.k = "none" \/ r.v = ""

\* safety objects (dicts): key "level" may be missing; "issues" may be missing,
\* a non-list, or a list of issue records
IMissing == [k |-> "missing", v |-> <<>>]
INonList == [k |-> "nonlist", v |-> <<>>]
IList(xs) == [k |-> "list", v |-> xs]
SafetyObj(hasLevel, level, issues) ==
    [hasLevel |-> hasLevel, level |-> level, issues |-> issues]
DefaultSafety == SafetyObj(TRUE, "safe", IList(<<>>))

\* the safety keyword: absent, a non-dict value, or the caller's dict
SAbsent == [k |-> "absent", o |-> DefaultSafety]
SNonObject == [k |-> "nonobject", o |-> DefaultSafety]
SObj(o) == [k |-> "obj", o |-> o]

EscalationIssue ==
    [code |-> "missing_provenance_high_confidence",
     detail |-> "confidence >= 0.9 without provenance"]
OtherIssue == [code |-> "manual_flag", detail |-> "flagged by the sender"]

HasIssue(o, code) ==
    o.issues.k = "list" /\ \E i \in 1..Len(o.issues.v) : o.issues.v[i].code = code

\* message ids: <prefix>-<suffix>-<digits> from message_id, or a generated one
NoId == [prefix |-> "", suffix |-> "", digits |-> <<>>]
GeneratedId == [prefix |-> "MSG", suffix |-> "uuid", digits |-> <<>>]

(***************************************************************************)
(* runtime.py: the validator                                               *)
(***************************************************************************)

\* A message.  safety is SAbsent / SNonObject / SObj(dict); provenance is one of
\* the P-values; seq 0 stands for None; total is payload.total_messages, -1 when
\* there is no payload.
Message(type, confidence, provenance, safety, refers_to, id, sq, total) ==
    [type |-> type, confidence |-> confidence, provenance |-> provenance,
     safety |-> safety, refers_to |-> refers_to, id |-> id, seq |-> sq,
     total |-> total]

NoMessage ==
    Message(Plain(""), ConfAbsent, PAbsent, SAbsent, RNone, NoId, 0, -1)

Ok == [ok |-> TRUE, err |-> ""]
Fail(text) == [ok |-> FALSE, err |-> text]

\* _as_list(v)
as_list(v) ==
    CASE v.k = "none" -> <<>>
      [] v.k = "list" -> v.v
      [] OTHER -> <<v.s>>           \* [v]

\* validate(instance=msg, schema=vlp_1_1): the structural step.  The schema file
\* vlp-1.1.json is not part of the sources; this follows the specification:
\* required-field presence, then field types, then enumerated-value membership,
\* reporting the first violation.  Of the required fields only type and
\* confidence vary here (id, protocol, timestamp, sender, content are present
\* and well typed in every message considered).
StructuralCheck(msg) ==
    CASE msg.confidence.k = "absent" ->
            Fail("'confidence' is a required property")
      [] msg.confidence.k # "num" ->
            Fail("confidence is not of type 'number'")
      [] msg.provenance.k \in {"none", "scalar"} ->
            Fail("provenance is not of type 'array'")
      [] msg.safety.k = "nonobject" ->
            Fail("safety is not of type 'object'")
      [] ~(msg.type.base \in MessageTypes /\ ~msg.type.upper /\ ~msg.type.padded) ->
            Fail("type is not one of the enumerated values")
      [] OTHER -> Ok

\* a validator without the response/correction rule
NoRule(msg, t) == Ok

\* The response/correction rule of _semantic_validate (runtime.py 69-72).
NoRefersToRule(msg, t) ==
    IF t.base \in {"response", "correction"} /\ Falsy(msg.refers_to)
    THEN Fail(t.base \o " messages must include refers_to")
    ELSE Ok

\* the evidence rule with its two tests in the other order
EvidenceRuleProvenanceFirst(msg, t, prov_list) ==
    IF t.base = "evidence"
    THEN IF prov_list = <<>>
         THEN Fail("evidence messages must include non-empty provenance")
         ELSE IF Falsy(msg.refers_to)
              THEN Fail("evidence messages must include refers_to")
              ELSE Ok
    ELSE Ok

\* The evidence rule of _semantic_validate (runtime.py 62-67).
EvidenceRule(msg, t, prov_list) ==
    IF t.base = "evidence"
    THEN IF Falsy(msg.refers_to)
         THEN Fail("evidence messages must include refers_to")
         ELSE IF prov_list = <<>>
              THEN Fail("evidence messages must include non-empty provenance")
              ELSE Ok
    ELSE Ok

\* The high-confidence rule of _semantic_validate (runtime.py 74-76).
HighConfidenceRule(conf_f, prov_list, safety_level) ==
    IF conf_f >= HighConfidence /\ prov_list = <<>> /\ safety_level # "review"
    THEN Fail("confidence >= 0.9 requires provenance or safety.level=review")
    ELSE Ok

\* semantic rules with the high-confidence rule ahead of the evidence rule
semantic_validate_high_first(msg) ==
    LET t == Strip(msg.type)
        conf == msg.confidence
        conf_f == ToFloat(conf)
        prov_list == IF msg.provenance.k = "list" THEN msg.provenance.v ELSE <<>>
        safety == IF msg.safety.k = "obj" THEN msg.safety.o ELSE DefaultSafety
        safety_level ==
            IF safety.hasLevel /\ safety.level # "" THEN safety.level ELSE "safe"
        hc == HighConfidenceRule(conf_f.v, prov_list, safety_level)
        ev == EvidenceRule(msg, t, prov_list)
    IN  CASE t # Lower(t) -> Fail("type must be lowercase")
          [] conf.k \in {"absent", "none"} -> Fail("confidence is required")
          [] ~conf_f.ok -> Fail("confidence must be a number")
          [] ~hc.ok -> hc
          [] ~ev.ok -> ev
          [] OTHER -> NoRefersToRule(msg, t)

\* _semantic_validate(msg)
semantic_validate(msg) ==
    LET t == Strip(msg.type)
        conf == msg.confidence
        conf_f == ToFloat(conf)
        prov_list == IF msg.provenance.k = "list" THEN msg.provenance.v ELSE <<>>
        safety == IF msg.safety.k = "obj" THEN msg.safety.o ELSE DefaultSafety
        safety_level ==
            IF safety.hasLevel /\ safety.level # "" THEN safety.level ELSE "safe"
        ev == EvidenceRule(msg, t, prov_list)
        rc == NoRefersToRule(msg, t)
    IN  CASE t # Lower(t) -> Fail("type must be lowercase")
          [] conf.k \in {"absent", "none"} -> Fail("confidence is required")
          [] ~conf_f.ok -> Fail("confidence must be a number")
          [] ~ev.ok -> ev
          [] ~rc.ok -> rc
          [] OTHER -> HighConfidenceRule(conf_f.v, prov_list, safety_level)

\* the semantic rules alone
semantic_only(msg) == semantic_validate(msg)

\* validate_vlp(msg): the structural step, then the semantic rules
validate_vlp(msg) ==
    LET s == StructuralCheck(msg)
    IN  IF ~s.ok THEN s ELSE semantic_validate(msg)

(***************************************************************************)
(* runtime.py: the builder                                                 *)
(***************************************************************************)

\* The keyword arguments of make_message that the model follows.
Kw(confidence, provenance, safety, refers_to, id, sq, total) ==
    [confidence |-> confidence, provenance |-> provenance, safety |-> safety,
     refers_to |-> refers_to, id |-> id, seq |-> sq, total |-> total]

\* an escalation test that does not look at the provenance
EscalateOnConfidence(confidence, provenance_list, safety) ==
    confidence >= HighConfidence /\ safety.level # "review"

\* an escalation test that leaves confidence 0.9 itself alone
EscalateAbove(confidence, provenance_list, safety) ==
    confidence > HighConfidence /\ provenance_list = <<>> /\ safety.level # "review"

\* runtime.py 135: the auto-escalation test
ShouldEscalate(confidence, provenance_list, safety) ==
    confidence >= HighConfidence /\ provenance_list = <<>> /\ safety.level # "review"

\* runtime.py 127-132: issues is made a list, level is made present
NormalizeSafety(safety) ==
    LET withIssues ==
            IF safety.issues.k # "list"
            THEN [safety EXCEPT !.issues = IList(<<>>)] ELSE safety
    IN  IF ~withIssues.hasLevel
        THEN [withIssues EXCEPT !.hasLevel = TRUE, !.level = "safe"]
        ELSE withIssues

\* an escalation that raises the level and records no issue
EscalateLevelOnly(safety) == [safety EXCEPT !.level = "review"]

\* runtime.py 136-140: safety["level"] = "review"; safety["issues"].append(...)
Escalate(safety) ==
    [safety EXCEPT !.level = "review",
                   !.issues = IList(Append(safety.issues.v, EscalationIssue))]

\* make_message(type_, sender, content, **kw).  The result holds the message
\* (ok), or the text of the exception raised, and obj: the dict the call worked
\* on as the call leaves it.  When the caller passed its own dict that is the
\* caller's object, changed in place.
make_message(type_, kw) ==
    LET t == Lower(Strip(type_))
        confidence ==
            IF kw.confidence.k = "absent" THEN [ok |-> TRUE, v |-> DefaultConfidence, err |-> ""]
            ELSE ToFloat(kw.confidence)
        provenance ==
            IF kw.provenance.k = "absent" THEN PList(<<>>) ELSE kw.provenance
        provenance_list ==
            IF provenance.k = "list" THEN provenance.v ELSE as_list(provenance)
        given == IF kw.safety.k = "obj" THEN kw.safety.o ELSE DefaultSafety
        normal == NormalizeSafety(given)
        safety ==
            IF ShouldEscalate(confidence.v, provenance_list, normal)
            THEN Escalate(normal) ELSE normal
        msg == Message(t, ConfNum(confidence.v), PList(provenance_list), SObj(safety),
                       kw.refers_to, IF kw.id = NoId THEN GeneratedId ELSE kw.id,
                       kw.seq, kw.total)
        v == validate_vlp(msg)
    IN  IF ~confidence.ok
        THEN [ok |-> FALSE, err |-> confidence.err, msg |-> NoMessage, obj |-> given]
        ELSE IF ~v.ok
             THEN [ok |-> FALSE, err |-> "VLP validation failed: " \o v.err,
                   msg |-> NoMessage, obj |-> safety]
             ELSE [ok |-> TRUE, err |-> "", msg |-> msg, obj |-> safety]

(***************************************************************************)
(* Error texts: the field names a description contains                     *)
(***************************************************************************)

\* The descriptions validate_vlp can return, with the field names each contains.
FieldWords(text) ==
    CASE text = "type must be lowercase" -> {"type"}
      [] text = "confidence is required" -> {"confidence"}
      [] text = "confidence must be a number" -> {"confidence"}
      [] text = "evidence messages must include refers_to" -> {"refers_to"}
      [] text = "evidence messages must include non-empty provenance" -> {"provenance"}
      [] text = "response messages must include refers_to" -> {"refers_to"}
      [] text = "correction messages must include refers_to" -> {"refers_to"}
      [] text = "confidence >= 0.9 requires provenance or safety.level=review" ->
            {"confidence", "provenance", "safety"}
      [] text = "'confidence' is a required property" -> {"confidence"}
      [] text = "confidence is not of type 'number'" -> {"confidence"}
      [] text = "provenance is not of type 'array'" -> {"provenance"}
      [] text = "safety is not of type 'object'" -> {"safety"}
      [] text = "type is not one of the enumerated values" -> {"type"}
      [] OTHER -> {}      \* the texts of float()'s exceptions name no field

Descriptions ==
    {"type must be lowercase", "confidence is required", "confidence must be a number",
     "evidence messages must include refers_to",
     "evidence messages must include non-empty provenance",
     "response messages must include refers_to",
     "correction messages must include refers_to",
     "confidence >= 0.9 requires provenance or safety.level=review",
     "'confidence' is a required property", "confidence is not of type 'number'",
     "provenance is not of type 'array'", "safety is not of type 'object'",
     "type is not one of the enumerated values"}

\* word occurs in text, where text is a description or the text of the
\* ValueError make_message raises around one
Mentions(text, word) ==
    \/ word \in FieldWords(text)
    \/ \E d \in Descriptions :
          text = "VLP validation failed: " \o d /\ word \in FieldWords(d)

(***************************************************************************)
(* SpecBuild: one caller of make_message and validate_vlp                  *)
(***************************************************************************)

MaxBuilds == 2

TypeInputs ==
    {TypeStr(b, u, p) : b \in {"claim", "evidence", "response", "correction", "bogus"},
                        u \in BOOLEAN, p \in BOOLEAN}
ConfInputs ==
    {ConfAbsent, ConfNone, ConfNum(50), ConfNum(90), ConfNum(95), ConfNumStr(95),
     ConfBadStr}
RefInputs == {RNone, RStr(""), RStr("MSG001")}
ProvInputs == {PAbsent, PNone, PScalar("src"), PList(<<>>), PList(<<"src">>)}
SafetyObjects ==
    {SafetyObj(FALSE, "", i) : i \in {IMissing, IList(<<>>)}}
    \cup {SafetyObj(TRUE, l, i) :
            l \in {"safe", "review", "blocked"},
            i \in {IMissing, INonList, IList(<<>>), IList(<<OtherIssue>>),
                   IList(<<EscalationIssue>>)}}
SafetyKinds == {"absent", "nonobject", "obj"}

\* the safety keyword of the call: the caller's dict as it is now, or no dict
SafetyArg(kind, obj) ==
    CASE kind = "obj" -> SObj(obj)
      [] kind = "nonobject" -> SNonObject
      [] OTHER -> SAbsent

\* the keywords of the call under study
CallKw == Kw(args.confidence, args.provenance, SafetyArg(args.safety, heap),
             args.refers_to, NoId, 0, -1)

\* the message a caller assembles by hand from the same fields, unnormalised
RawMessage ==
    Message(args.type, args.confidence, args.provenance, SafetyArg(args.safety, heap),
            args.refers_to, GeneratedId, 0, -1)

NoOut == [ok |-> FALSE, err |-> "", msg |-> NoMessage, obj |-> DefaultSafety]

(***************************************************************************)
(* sessions.py: values                                                     *)
(***************************************************************************)

NumThreads == 2
NumSessions == 2
MaxSeq == 6           \* sequence numbers handed out in a run, all sessions together

Threads == 1..NumThreads
SessionObjs == 1..NumSessions
NoThread == 0
NoSession == 0

\* session_id = f"S-{date}-{slug}-{short_id}".  short_id stands for the six hex
\* digits uuid4 gives; the model gives every session object its own (the ids are
\* taken to be distinct).  UnknownId is an id no session has.
SessionId(s) == [date |-> "2025-01-04", slug |-> "test", short_id |-> s]
UnknownId == [date |-> "2025-01-04", slug |-> "test", short_id |-> 0]
Ids == {SessionId(s) : s \in SessionObjs} \cup {UnknownId}

\* session_id[-6:]: the id always ends with the six characters of short_id
Last6(sid) == sid.short_id

\* format(n, "04d"): the decimal digits of n, zero-padded to four
RECURSIVE DigitsOf(_)
DigitsOf(n) == IF n < 10 THEN <<n>> ELSE Append(DigitsOf(n \div 10), n % 10)
RECURSIVE PadLeft(_, _)
PadLeft(ds, w) == IF Len(ds) >= w THEN ds ELSE PadLeft(<<0>> \o ds, w)
IdWidth == 4
Format04d(n) == PadLeft(DigitsOf(n), IdWidth)

\* int(text): what the tests read back from the last field of a message id
RECURSIVE ParseInt(_)
ParseInt(ds) ==
    IF ds = <<>> THEN 0
    ELSE 10 * ParseInt(SubSeq(ds, 1, Len(ds) - 1)) + ds[Len(ds)]

MessageId(prefix, sid, n) ==
    [prefix |-> prefix, suffix |-> Last6(sid), digits |-> Format04d(n)]

\* what an operation hands back to its caller
NoRes == [k |-> "none", n |-> 0, id |-> NoId, msg |-> NoMessage, s |-> NoSession,
          err |-> ""]
MsgRes(m) == [NoRes EXCEPT !.k = "msg", !.msg = m]
RaiseRes(e) == [NoRes EXCEPT !.k = "raise", !.err = e]
SessionRes(s) == [NoRes EXCEPT !.k = "session", !.s = s]   \* s = NoSession: None

\* A thread: the operation it runs, its position in it, and its locals.  At
\* "idle" it is between operations: the last one has returned to its caller.
\*   phase  "id" while inside message_id, "seq" otherwise
\*   tmp    the value of self.seq loaded by  self.seq += 1
\*   ret    what the last next_seq() call returned
\*   id     what message_id returned
\*   res    the value the operation is about to return
\* and, as bookkeeping for the properties:
\*   own    the index in hist of the number message_id's own call was given
\*   alone  (end_session) no other thread has used the same session since the
\*          operation began
\*   c0     (end_session) the session counter when the operation began, kept
\*          while alone
\*   todo   next_seq calls the operation has still to make
IdleThread ==
    [op |-> "idle", pc |-> "idle", s |-> NoSession, sid |-> UnknownId, phase |-> "",
     tmp |-> 0, ret |-> 0, id |-> NoId, res |-> NoRes,
     own |-> 0, c0 |-> 0, alone |-> TRUE, todo |-> 0]

SessionOps == {"next_seq", "message_id", "create_claim", "end_session"}

Resting(t) == th[t].pc = "idle"

(***************************************************************************)
(* sessions.py: AgentSession.next_seq and message_id                       *)
(*                                                                         *)
(* Steps that touch nothing another thread can see are folded into the     *)
(* step before or after them; the steps kept apart are the acquisition of  *)
(* a lock, the load and the store of  self.seq += 1, and every read of     *)
(* self.seq.                                                               *)
(***************************************************************************)

\* a lock that lets every caller through (next_seq without its lock)
Unlocked(holder) == TRUE

\* threading.Lock: acquire goes through only when nobody holds the lock
LockFree(holder) == holder = NoThread

RECURSIVE SumOver(_, _)
SumOver(f, dom) ==
    IF dom = {} THEN 0
    ELSE LET x == CHOOSE y \in dom : TRUE IN f[x] + SumOver(f, dom \ {x})

\* numbers handed out so far, and those the running operations will still take
Issued == SumOver([s \in SessionObjs |-> Len(hist[s])], SessionObjs)
Pending == SumOver([t \in Threads |-> th[t].todo], Threads)

\* a thread may start an operation that takes k numbers
Budget(k) == Issued + Pending + k <= MaxSeq

OthersOn(t, s) ==
    {u \in Threads \ {t} : th[u].op \in SessionOps /\ th[u].s = s}

\* t calls op on session s and enters its first next_seq(): with self._lock, and
\* the load of  self.seq += 1.  The operation will call next_seq k times, the
\* first time through message_id when viaId.
EnterOn(t, s, op, k, viaId) ==
    /\ Resting(t)
    /\ sstate[s] \in {"started", "ended"}        \* the caller holds the session
    /\ Budget(k)
    /\ LockFree(slock[s])
    /\ slock' = [slock EXCEPT ![s] = t]
    /\ th' = [u \in Threads |->
                IF u = t
                THEN [IdleThread EXCEPT !.op = op, !.pc = "ns_store", !.s = s,
                                        !.phase = IF viaId THEN "id" ELSE "seq",
                                        !.tmp = seq[s],
                                        !.todo = k,
                                        !.alone = op = "end_session" => OthersOn(t, s) = {},
                                        !.c0 = IF op = "end_session" /\ OthersOn(t, s) = {}
                                               THEN seq[s] ELSE 0]
                ELSE IF u \in OthersOn(t, s) /\ th[u].op = "end_session"
                     THEN [th[u] EXCEPT !.alone = FALSE, !.c0 = 0]
                ELSE th[u]]
    /\ UNCHANGED <<seq, rlock, sessions, sstate, hist>>
    /\ UNCHANGED <<bvars, xvars>>

\* next_seq()
CallNextSeq(t, s) == EnterOn(t, s, "next_seq", 1, FALSE)
\* message_id(prefix)
CallMessageId(t, s) == EnterOn(t, s, "message_id", 1, TRUE)

\* where next_seq returns to; "idle": the operation is next_seq itself and returns
AfterNextSeq(t) ==
    CASE th[t].phase = "id" -> "mid_format"
      [] th[t].op = "create_claim" -> "cc_build"
      [] th[t].op = "end_session" -> "es_build"
      [] OTHER -> "idle"

\* a next_seq that returns with the session's lock still held
NsStoreKeepLock(t) ==
    LET s == th[t].s
        v == th[t].tmp + 1
        to == AfterNextSeq(t)
    IN  /\ th[t].pc = "ns_store"
        /\ seq' = [seq EXCEPT ![s] = v]
        /\ hist' = [hist EXCEPT ![s] =
                      Append(@, [v |-> v, mid |-> th[t].phase = "id",
                                 out |-> IF th[t].phase = "id" THEN 0 ELSE v])]
        /\ th' = [th EXCEPT ![t] =
                    IF to = "idle" THEN IdleThread
                    ELSE [@ EXCEPT !.pc = to, !.ret = v, !.todo = @ - 1,
                                   !.own = IF th[t].phase = "id"
                                           THEN Len(hist[s]) + 1 ELSE @]]
        /\ UNCHANGED <<slock, rlock, sessions, sstate>>
        /\ UNCHANGED <<bvars, xvars>>

\* the store of  self.seq += 1,  return self.seq,  and the lock is released on
\* the way out.  hist records the value handed out, whether the call was made by
\* message_id (mid), and (out) the number the caller gets to see: the value
\* itself, or for message_id the number in the id, 0 until the id is formatted.
NsStore(t) ==
    LET s == th[t].s
        v == th[t].tmp + 1
        to == AfterNextSeq(t)
    IN  /\ th[t].pc = "ns_store"
        /\ seq' = [seq EXCEPT ![s] = v]
        /\ slock' = [slock EXCEPT ![s] = NoThread]
        /\ hist' = [hist EXCEPT ![s] =
                      Append(@, [v |-> v, mid |-> th[t].phase = "id",
                                 out |-> IF th[t].phase = "id" THEN 0 ELSE v])]
        /\ th' = [th EXCEPT ![t] =
                    IF to = "idle" THEN IdleThread
                    ELSE [@ EXCEPT !.pc = to, !.ret = v, !.todo = @ - 1,
                                   !.own = IF th[t].phase = "id"
                                           THEN Len(hist[s]) + 1 ELSE @]]
        /\ UNCHANGED <<rlock, sessions, sstate>>
        /\ UNCHANGED <<bvars, xvars>>

\* the session counter as it stands when the id is formatted
counter_now(t) == seq[th[t].s]

\* the number message_id puts in the id: the value its next_seq() call returned
message_id_number(t) == th[t].ret

MessagePrefix(op) ==
    CASE op = "create_claim" -> "CLM"
      [] op = "end_session" -> "CTX"
      [] OTHER -> "MSG"

\* message_id returns f"{prefix}-{self.session_id[-6:]}-{self.next_seq():04d}"
\* to its caller
MidFormat(t) ==
    LET id == MessageId(MessagePrefix(th[t].op), SessionId(th[t].s), message_id_number(t))
    IN  /\ th[t].pc = "mid_format"
        /\ th[t].op = "message_id"
        /\ hist' = [hist EXCEPT ![th[t].s][th[t].own].out = ParseInt(id.digits)]
        /\ th' = [th EXCEPT ![t] = IdleThread]
        /\ UNCHANGED <<seq, slock, rlock, sessions, sstate>>
        /\ UNCHANGED <<bvars, xvars>>

\* in create_claim and end_session: message_id returns the id, and the second
\* next_seq() begins: with self._lock, and the load of  self.seq += 1
NsAcquire(t) ==
    LET s == th[t].s
        id == MessageId(MessagePrefix(th[t].op), SessionId(s), message_id_number(t))
    IN  /\ th[t].pc = "mid_format"
        /\ th[t].op \in {"create_claim", "end_session"}
        /\ LockFree(slock[s])
        /\ slock' = [slock EXCEPT ![s] = t]
        /\ hist' = [hist EXCEPT ![s][th[t].own].out = ParseInt(id.digits)]
        /\ th' = [th EXCEPT ![t].id = id, ![t].phase = "seq", ![t].pc = "ns_store",
                            ![t].tmp = seq[s]]
        /\ UNCHANGED <<seq, rlock, sessions, sstate>>
        /\ UNCHANGED <<bvars, xvars>>

(***************************************************************************)
(* sessions.py: AgentSessionRegistry                                       *)
(***************************************************************************)

\* start_session: session = AgentSession(agent_name, agent_number) begins.  The
\* object exists but __init__ has not finished setting its fields.  (The model
\* hands out the session objects in order.)
CallStartSession(t, s) ==
    /\ Resting(t)
    /\ sstate[s] = "unborn"
    /\ \A r \in SessionObjs : r < s => sstate[r] # "unborn"
    /\ sstate' = [sstate EXCEPT ![s] = "partial"]
    /\ th' = [th EXCEPT ![t] = [IdleThread EXCEPT !.op = "start_session",
                                                  !.pc = "ss_acquire", !.s = s]]
    /\ UNCHANGED <<seq, slock, rlock, sessions, hist>>
    /\ UNCHANGED <<bvars, xvars>>

\* AgentSession.__init__ finishes (session_id, started_at, seq = 0, _lock), and
\* with self._lock:  on the registry's lock
SsAcquire(t) ==
    /\ th[t].pc = "ss_acquire"
    /\ LockFree(rlock)
    /\ rlock' = t
    /\ sstate' = [sstate EXCEPT ![th[t].s] = "constructed"]
    /\ seq' = [seq EXCEPT ![th[t].s] = 0]
    /\ th' = [th EXCEPT ![t].pc = "ss_insert"]
    /\ UNCHANGED <<slock, sessions, hist>>
    /\ UNCHANGED <<bvars, xvars>>

\* self._sessions[session.session_id] = session
InsertSession(m, s) == [m EXCEPT ![SessionId(s)] = s]

\* the insertion, the release of the lock, and return session.  From here on
\* callers hold the session ("started").
SsInsert(t) ==
    /\ th[t].pc = "ss_insert"
    /\ sessions' = InsertSession(sessions, th[t].s)
    /\ rlock' = NoThread
    /\ sstate' = [sstate EXCEPT ![th[t].s] = "started"]
    /\ th' = [th EXCEPT ![t] = IdleThread]
    /\ UNCHANGED <<seq, slock, hist>>
    /\ UNCHANGED <<bvars, xvars>>

\* a lookup that takes the entry out of the dict
PopOnGet(m, sid) == [m EXCEPT ![sid] = NoSession]

\* dict.get(key): the value, or None; the dict is left as it is
DictGet(m, sid) == m[sid]
AfterGet(m, sid) == m

\* get_session(session_id): with self._lock, and self._sessions.get(session_id),
\* the value to return
CallGetSession(t, sid) ==
    /\ Resting(t)
    /\ LockFree(rlock)
    /\ rlock' = t
    /\ sessions' = AfterGet(sessions, sid)
    /\ th' = [th EXCEPT ![t] = [IdleThread EXCEPT !.op = "get_session",
                                                  !.pc = "gs_return", !.sid = sid,
                                                  !.res = SessionRes(DictGet(sessions, sid))]]
    /\ UNCHANGED <<seq, slock, sstate, hist>>
    /\ UNCHANGED <<bvars, xvars>>

\* the lock is released and get_session returns
GsReturn(t) ==
    /\ th[t].pc = "gs_return"
    /\ rlock' = NoThread
    /\ th' = [th EXCEPT ![t] = IdleThread]
    /\ UNCHANGED <<seq, slock, sessions, sstate, hist>>
    /\ UNCHANGED <<bvars, xvars>>

\* create_claim(session, content, confidence, **kw): id=session.message_id("CLM"),
\* then seq=session.next_seq(), then make_message.  The caller's confidence is
\* not looked at before make_message, and the model draws it there.
ClaimConfInputs == {ConfNum(90), ConfBadStr}

CallCreateClaim(t, s) == EnterOn(t, s, "create_claim", 2, TRUE)

\* a create_claim that puts the number of its id in seq as well
ClaimResultOneNumber(t, conf) ==
    LET r == make_message(Plain("claim"),
                          Kw(conf, PAbsent, SAbsent, RNone, th[t].id,
                             ParseInt(th[t].id.digits), -1))
    IN  IF r.ok THEN MsgRes(r.msg) ELSE RaiseRes(r.err)

\* what create_claim's make_message call gives
ClaimResult(t, conf) ==
    LET r == make_message(Plain("claim"),
                          Kw(conf, PAbsent, SAbsent, RNone, th[t].id, th[t].ret, -1))
    IN  IF r.ok THEN MsgRes(r.msg) ELSE RaiseRes(r.err)

\* return make_message("claim", ...): the message is returned, or the error raised
CcBuild(t, conf) ==
    /\ th[t].pc = "cc_build"
    /\ ClaimResult(t, conf).k \in {"msg", "raise"}
    /\ th' = [th EXCEPT ![t] = IdleThread]
    /\ UNCHANGED <<seq, slock, rlock, sessions, sstate, hist>>
    /\ UNCHANGED <<bvars, xvars>>

\* end_session(session, summary): id=session.message_id("CTX"), then
\* seq=session.next_seq(), then the payload with total_messages, then make_message
CallEndSession(t, s) == EnterOn(t, s, "end_session", 2, TRUE)

\* a total that counts one per message built
MessagesBuilt(t) == seq[th[t].s] \div 2

\* "total_messages": session.seq    (read without the session's lock)
TotalMessages(t) == seq[th[t].s]

EsBuild(t) ==
    LET r == make_message(Plain("session_context"),
                          Kw(ConfNum(DefaultConfidence),
                             PList(<<"agent_session", "agent_1">>), SAbsent, RNone,
                             th[t].id, th[t].ret, TotalMessages(t)))
    IN  /\ th[t].pc = "es_build"
        /\ th' = [th EXCEPT ![t] =
                    IF r.ok THEN [@ EXCEPT !.pc = "es_acquire", !.res = MsgRes(r.msg)]
                    ELSE IdleThread]        \* the ValueError goes to the caller
        /\ UNCHANGED <<seq, slock, rlock, sessions, sstate, hist>>
        /\ UNCHANGED <<bvars, xvars>>

\* with self._lock:  on the registry's lock
EsAcquire(t) ==
    /\ th[t].pc = "es_acquire"
    /\ LockFree(rlock)
    /\ rlock' = t
    /\ th' = [th EXCEPT ![t].pc = "es_pop"]
    /\ UNCHANGED <<seq, slock, sessions, sstate, hist>>
    /\ UNCHANGED <<bvars, xvars>>

\* an end_session that leaves the entry in the dict
KeepSession(m, sid) == m

\* self._sessions.pop(session.session_id, None)
PopSession(m, sid) == [m EXCEPT ![sid] = NoSession]

\* the removal, the release of the lock, and return msg.  From here on
\* end_session has returned a message for the session ("ended").
EsPop(t) ==
    /\ th[t].pc = "es_pop"
    /\ sessions' = PopSession(sessions, SessionId(th[t].s))
    /\ rlock' = NoThread
    /\ sstate' = [sstate EXCEPT ![th[t].s] = "ended"]
    /\ th' = [th EXCEPT ![t] = IdleThread]
    /\ UNCHANGED <<seq, slock, hist>>
    /\ UNCHANGED <<bvars, xvars>>

(***************************************************************************)
(* sessions.py: the global registry and get_registry                       *)
(***************************************************************************)

MaxGets == 3          \* get_registry calls a thread makes in a run

NoRegistry == 0       \* _registry is None

\* a thread of SpecGlobal: where it is in get_registry, and the instances its
\* calls have returned so far, in order
GlobalIdle == [pc |-> "idle", got |-> <<>>]

\* _registry: Optional[AgentSessionRegistry] = None, at import
GlobalInit ==
    /\ registry_ = NoRegistry
    /\ made = 0
    /\ gth = [t \in Threads |-> GlobalIdle]

\* get_registry(): the test  if _registry is None  (a read of the global; no
\* lock is taken)
GrCheck(t) ==
    /\ gth[t].pc = "idle"
    /\ Len(gth[t].got) < MaxGets
    /\ gth' = [gth EXCEPT ![t].pc = IF registry_ = NoRegistry THEN "create" ELSE "return"]
    /\ UNCHANGED <<registry_, made, tin, tout>>
    /\ UNCHANGED <<bvars, svars>>

\* _registry = AgentSessionRegistry(): a new instance is made and stored
GrCreate(t) ==
    /\ gth[t].pc = "create"
    /\ made' = made + 1
    /\ registry_' = made + 1
    /\ gth' = [gth EXCEPT ![t].pc = "return"]
    /\ UNCHANGED <<tin, tout>>
    /\ UNCHANGED <<bvars, svars>>

\* return _registry  (a read of the global)
GrReturn(t) ==
    /\ gth[t].pc = "return"
    /\ gth' = [gth EXCEPT ![t] = [pc |-> "idle", got |-> Append(@.got, registry_)]]
    /\ UNCHANGED <<registry_, made, tin, tout>>
    /\ UNCHANGED <<bvars, svars>>

GlobalNext == \E t \in Threads : GrCheck(t) \/ GrCreate(t) \/ GrReturn(t)

(***************************************************************************)
(* Text functions: values                                                  *)
(***************************************************************************)

\* A text is a sequence of characters, each character a one-element string;
\* "NL" stands for the line feed U+000A and "LS" for the line separator U+2028.

\* no text function under study
NoText == [kind |-> "none"]
TextIdle == tin = NoText /\ tout = NoText

\* all texts of at most n characters over the alphabet
TextsUpTo(alphabet, n) == UNION {[1..k -> alphabet] : k \in 0..n}

\* "sep".join(parts)
RECURSIVE Join(_, _)
Join(parts, sep) ==
    IF parts = <<>> THEN <<>>
    ELSE IF Len(parts) = 1 THEN parts[1]
    ELSE parts[1] \o sep \o Join(Tail(parts), sep)

\* str.lower(), of the letters considered
LowerChar(c) ==
    CASE c = "A" -> "a"
      [] c = "T" -> "t"
      [] c = "O" -> "o"
      [] c = "B" -> "b"
      [] c = "E" -> "e"
      [] OTHER -> c

lower(text) == [i \in 1..Len(text) |-> LowerChar(text[i])]

\* str.strip(): leading and trailing whitespace removed
RECURSIVE lstrip(_)
lstrip(text) ==
    IF text # <<>> /\ text[1] = " " THEN lstrip(Tail(text)) ELSE text
RECURSIVE rstrip(_)
rstrip(text) ==
    IF text # <<>> /\ text[Len(text)] = " "
    THEN rstrip(SubSeq(text, 1, Len(text) - 1)) ELSE text
strip(text) == rstrip(lstrip(text))

(***************************************************************************)
(* runtime.py: make_message, the keywords (lines 142-148)                  *)
(***************************************************************************)

MaxKeywords == 2      \* entries in the caller's keywords list
MaxKeyword == 2       \* characters in an entry

KeywordChars == {"a", "A", " "}

\* an entry of the caller's list: a string, or some other value
StrEntry(text) == [str |-> TRUE, v |-> text]
OtherEntry == [str |-> FALSE, v |-> <<>>]

Member(x, xs) == \E i \in 1..Len(xs) : xs[i] = x

\* list(dict.fromkeys(xs)): the first occurrence of every value, in order
RECURSIVE FromKeys(_, _)
FromKeys(xs, acc) ==
    IF xs = <<>> THEN acc
    ELSE FromKeys(Tail(xs), IF Member(xs[1], acc) THEN acc ELSE Append(acc, xs[1]))

\* k.lower().strip() for k in keywords_list if isinstance(k, str) and k.strip()
RECURSIVE Cleaned(_)
Cleaned(entries) ==
    IF entries = <<>> THEN <<>>
    ELSE IF entries[1].str /\ strip(entries[1].v) # <<>>
         THEN <<strip(lower(entries[1].v))>> \o Cleaned(Tail(entries))
         ELSE Cleaned(Tail(entries))

\* the entries that are non-blank strings, as they are
RECURSIVE Kept(_)
Kept(entries) ==
    IF entries = <<>> THEN <<>>
    ELSE IF entries[1].str /\ strip(entries[1].v) # <<>>
         THEN <<entries[1].v>> \o Kept(Tail(entries))
         ELSE Kept(Tail(entries))

\* a normalization that removes the duplicates before it lowercases and trims
normalize_after_dedupe(entries) ==
    LET firsts == FromKeys(Kept(entries), <<>>)
    IN  [i \in 1..Len(firsts) |-> strip(lower(firsts[i]))]

\* keywords_list as make_message puts it in the message (lines 146-148)
normalize_keywords(entries) == FromKeys(Cleaned(entries), <<>>)

\* a list of strings passed as the keywords of a call
AsEntries(texts) == [i \in 1..Len(texts) |-> StrEntry(texts[i])]

KeywordEntries ==
    {StrEntry(x) : x \in TextsUpTo(KeywordChars, MaxKeyword)} \cup {OtherEntry}

KeywordInputs == UNION {[1..k -> KeywordEntries] : k \in 0..MaxKeywords}

KeywordsInit ==
    /\ tin \in {[kind |-> "keywords", v |-> ks] : ks \in KeywordInputs}
    /\ tout = NoText

\* make_message(..., keywords=K): msg["keywords"]
NormalizeKeywords ==
    /\ tin.kind = "keywords"
    /\ tout = NoText
    /\ tout' = [kind |-> "keywords", v |-> normalize_keywords(tin.v), prev |-> <<>>, n |-> 1]
    /\ tin' = tin
    /\ UNCHANGED <<registry_, made, gth>>
    /\ UNCHANGED <<bvars, svars>>

\* make_message(..., keywords=msg["keywords"]): the keywords of a message passed
\* to another call
NormalizeAgain ==
    /\ tout.kind = "keywords"
    /\ tout.n = 1
    /\ tout' = [kind |-> "keywords", v |-> normalize_keywords(AsEntries(tout.v)),
                prev |-> tout.v, n |-> 2]
    /\ tin' = tin
    /\ UNCHANGED <<registry_, made, gth>>
    /\ UNCHANGED <<bvars, svars>>

KeywordsNext == NormalizeKeywords \/ NormalizeAgain

(***************************************************************************)
(* sessions.py: AgentSession._generate_session_id, on texts                *)
(***************************************************************************)

\* text[:n]
Prefix(text, n) == SubSeq(text, 1, IF Len(text) < n THEN Len(text) ELSE n)

StartsWith(text, old) == Len(text) >= Len(old) /\ SubSeq(text, 1, Len(old)) = old

\* str.replace(old, new): every occurrence, left to right, without overlap
RECURSIVE replace(_, _, _)
replace(text, old, new) ==
    IF text = <<>> THEN <<>>
    ELSE IF StartsWith(text, old)
         THEN new \o replace(SubSeq(text, Len(old) + 1, Len(text)), old, new)
         ELSE <<text[1]>> \o replace(Tail(text), old, new)

\* str.split(sep), sep one character
RECURSIVE SplitOn(_, _, _)
SplitOn(text, sep, field) ==
    IF text = <<>> THEN <<field>>
    ELSE IF text[1] = sep THEN <<field>> \o SplitOn(Tail(text), sep, <<>>)
    ELSE SplitOn(Tail(text), sep, Append(field, text[1]))

split(text, sep) == SplitOn(text, sep, <<>>)

DigitChar(d) ==
    CASE d = 0 -> "0" [] d = 1 -> "1" [] d = 2 -> "2" [] d = 3 -> "3" [] d = 4 -> "4"
      [] d = 5 -> "5" [] d = 6 -> "6" [] d = 7 -> "7" [] d = 8 -> "8" [] OTHER -> "9"

\* a number in decimal, zero-padded to w characters
Decimal(n, w) ==
    LET ds == PadLeft(DigitsOf(n), w) IN [i \in 1..Len(ds) |-> DigitChar(ds[i])]

\* strftime("%Y-%m-%d")
strftime_Ymd(d) ==
    Decimal(d.year, 4) \o <<"-">> \o Decimal(d.month, 2) \o <<"-">> \o Decimal(d.day, 2)

SlugWidth == 12

\* agent_name.lower().replace("the ", "").replace(" ", "-")[:12]
slug_of(agent_name) ==
    Prefix(replace(replace(lower(agent_name), <<"t", "h", "e", " ">>, <<>>),
                   <<" ">>, <<"-">>),
           SlugWidth)

\* _generate_session_id: f"S-{date}-{slug}-{short_id}"
generate_session_id(agent_name, today, short_id) ==
    <<"S", "-">> \o strftime_Ymd(today) \o <<"-">> \o slug_of(agent_name)
        \o <<"-">> \o short_id

TheObserver == <<"T", "h", "e", " ", "O", "b", "s", "e", "r", "v", "e", "r">>

AgentNames ==
    { TheObserver,
      <<"T", "e", "s", "t">>,
      <<"B", "a", "t", "h", "e", " ", "B", "o", "t">>,
      <<"O", "b", "s", "e", "r", "v", "e", "r", " ", "T", "h", "e", " ", "B", "o", "t">>,
      <<"t", "h", "e", " ", "t", "h", "e", " ", "b", "o", "t">>,
      <<"a", " ", "v", "e", "r", "y", " ", "l", "o", "n", "g", " ", "n", "a", "m", "e">> }

Dates ==
    { [year |-> 2025, month |-> 1, day |-> 4],
      [year |-> 2025, month |-> 12, day |-> 31],
      [year |-> 2026, month |-> 11, day |-> 5] }

\* uuid.uuid4().hex[:6]
ShortIds ==
    { <<"a", "b", "c", "1", "2", "3">>,
      <<"0", "0", "f", "f", "0", "0">>,
      <<"9", "e", "8", "d", "7", "c">> }

SessionIdInit ==
    /\ tin \in {[kind |-> "agent", name |-> n, today |-> d, short_id |-> h] :
                   n \in AgentNames, d \in Dates, h \in ShortIds}
    /\ tout = NoText

\* AgentSession(agent_name, ...): self.session_id = self._generate_session_id(agent_name)
GenerateSessionId ==
    /\ tin.kind = "agent"
    /\ tout = NoText
    /\ tout' = [kind |-> "session_id",
                id |-> generate_session_id(tin.name, tin.today, tin.short_id)]
    /\ tin' = tin
    /\ UNCHANGED <<registry_, made, gth>>
    /\ UNCHANGED <<bvars, svars>>

(***************************************************************************)
(* runtime.py: to_ndjson and from_ndjson                                   *)
(*                                                                         *)
(* A message is followed through its content string; json.dumps writes it  *)
(* as the object  {"<escaped content>"}  on one line.                      *)
(***************************************************************************)

MaxMessages == 2      \* messages in the sequence
MaxContent == 2       \* characters in a content string

ContentChars == {"a", "NL", "LS", "\"", "\\"}

\* json.dumps(m, ensure_ascii=False) on a string: the quote, the backslash and
\* the control characters below U+0020 are escaped; every other character,
\* U+2028 included, is written as it is
EscapeChar(c) ==
    CASE c = "NL" -> <<"\\", "n">>
      [] c = "\"" -> <<"\\", "\"">>
      [] c = "\\" -> <<"\\", "\\">>
      [] OTHER -> <<c>>

RECURSIVE Escape(_)
Escape(text) == IF text = <<>> THEN <<>> ELSE EscapeChar(text[1]) \o Escape(Tail(text))

\* json.dumps(m, ensure_ascii=False)
json_dumps(m) == <<"{", "\"">> \o Escape(m) \o <<"\"", "}">>

RECURSIVE DumpAll(_)
DumpAll(messages) ==
    IF messages = <<>> THEN <<>>
    ELSE <<json_dumps(messages[1])>> \o DumpAll(Tail(messages))

\* to_ndjson(messages): "\n".join(json.dumps(m, ensure_ascii=False) for m in messages)
to_ndjson(messages) == Join(DumpAll(messages), <<"NL">>)

\* the characters str.splitlines() breaks a line at (of those considered here)
LineBreaks == {"NL", "LS"}

\* str.splitlines(): the lines of the text, without the line breaks; a break at
\* the very end starts no further line
RECURSIVE SplitFrom(_, _)
SplitFrom(text, line) ==
    IF text = <<>> THEN (IF line = <<>> THEN <<>> ELSE <<line>>)
    ELSE IF text[1] \in LineBreaks THEN <<line>> \o SplitFrom(Tail(text), <<>>)
    ELSE SplitFrom(Tail(text), Append(line, text[1]))

splitlines(text) == SplitFrom(text, <<>>)

\* the body of a JSON string, up to the closing quote: ok with the text, or not
\* a JSON string (no closing quote, a bad escape, a raw control character)
RECURSIVE Unescape(_, _)
Unescape(body, acc) ==
    IF body = <<>> THEN [ok |-> FALSE, v |-> <<>>, rest |-> <<>>]
    ELSE IF body[1] = "\"" THEN [ok |-> TRUE, v |-> acc, rest |-> Tail(body)]
    ELSE IF body[1] = "NL" THEN [ok |-> FALSE, v |-> <<>>, rest |-> <<>>]
    ELSE IF body[1] = "\\"
         THEN IF Len(body) < 2 THEN [ok |-> FALSE, v |-> <<>>, rest |-> <<>>]
              ELSE IF body[2] = "n" THEN Unescape(SubSeq(body, 3, Len(body)), Append(acc, "NL"))
              ELSE IF body[2] \in {"\"", "\\"}
                   THEN Unescape(SubSeq(body, 3, Len(body)), Append(acc, body[2]))
              ELSE [ok |-> FALSE, v |-> <<>>, rest |-> <<>>]
    ELSE Unescape(Tail(body), Append(acc, body[1]))

\* json.loads(line): the message, or JSONDecodeError
json_loads(line) ==
    IF Len(line) < 2 \/ line[1] # "{" \/ line[2] # "\""
    THEN [ok |-> FALSE, v |-> <<>>]
    ELSE LET u == Unescape(SubSeq(line, 3, Len(line)), <<>>)
         IN  IF u.ok /\ u.rest = <<"}">> THEN [ok |-> TRUE, v |-> u.v]
             ELSE [ok |-> FALSE, v |-> <<>>]

\* the loop of from_ndjson over the lines: empty lines are skipped, and the
\* first line json.loads rejects raises out of the loop
RECURSIVE LoadAll(_, _)
LoadAll(lines, acc) ==
    IF lines = <<>> THEN [ok |-> TRUE, v |-> acc]
    ELSE IF lines[1] = <<>> THEN LoadAll(Tail(lines), acc)
    ELSE LET m == json_loads(lines[1])
         IN  IF m.ok THEN LoadAll(Tail(lines), Append(acc, m.v))
             ELSE [ok |-> FALSE, v |-> <<>>]

\* from_ndjson(text): the messages, or the JSONDecodeError raised
from_ndjson(text) == LoadAll(splitlines(text), <<>>)

NdjsonInputs ==
    UNION {[1..k -> TextsUpTo(ContentChars, MaxContent)] : k \in 0..MaxMessages}

NdjsonInit ==
    /\ tin \in {[kind |-> "messages", v |-> ms] : ms \in NdjsonInputs}
    /\ tout = NoText

\* text = to_ndjson(messages)
ToNdjson ==
    /\ tin.kind = "messages"
    /\ tout = NoText
    /\ tout' = [kind |-> "ndjson", text |-> to_ndjson(tin.v)]
    /\ tin' = tin
    /\ UNCHANGED <<registry_, made, gth>>
    /\ UNCHANGED <<bvars, svars>>

\* parsed = from_ndjson(text)
FromNdjson ==
    /\ tout.kind = "ndjson"
    /\ tout' = [kind |-> "parsed", r |-> from_ndjson(tout.text)]
    /\ tin' = tin
    /\ UNCHANGED <<registry_, made, gth>>
    /\ UNCHANGED <<bvars, svars>>

NdjsonNext == ToNdjson \/ FromNdjson


(***************************************************************************)
(* The specifications                                                      *)
(*   Spec      threads using one registry: start_session, get_session,      *)
(*             create_claim and end_session                                 *)
(*   SpecSeq   threads sharing AgentSession objects built directly:         *)
(*             next_seq and message_id                                      *)
(*   SpecBuild make_message and validate_vlp over their inputs              *)
(***************************************************************************)

SessionsInit ==
    /\ seq = [s \in SessionObjs |-> 0]
    /\ slock = [s \in SessionObjs |-> NoThread]
    /\ rlock = NoThread
    /\ sessions = [i \in Ids |-> NoSession]
    /\ sstate = [s \in SessionObjs |-> "unborn"]
    /\ th = [t \in Threads |-> IdleThread]
    /\ hist = [s \in SessionObjs |-> <<>>]

BuilderIdle ==
    /\ bpc = "off"
    /\ args = [type |-> Plain("claim"), confidence |-> ConfAbsent, provenance |-> PAbsent,
               safety |-> "absent", refers_to |-> RNone]
    /\ heap = DefaultSafety
    /\ heap0 = DefaultSafety
    /\ out = NoOut
    /\ vres = Ok
    /\ calls = 0

Init == SessionsInit /\ BuilderIdle /\ GlobalInit /\ TextIdle

Next ==
    \E t \in Threads :
        \/ \E s \in SessionObjs : CallStartSession(t, s)
        \/ SsAcquire(t)
        \/ SsInsert(t)
        \/ \E sid \in Ids : CallGetSession(t, sid)
        \/ GsReturn(t)
        \/ \E s \in SessionObjs : CallCreateClaim(t, s)
        \/ \E s \in SessionObjs : CallEndSession(t, s)
        \/ NsAcquire(t)
        \/ NsStore(t)
        \/ \E c \in ClaimConfInputs : CcBuild(t, c)
        \/ EsBuild(t)
        \/ EsAcquire(t)
        \/ EsPop(t)

Spec == Init /\ [][Next]_vars

\* AgentSession(agent_name, agent_number) objects, constructed and in their
\* callers' hands, with no registry involved
SeqInit ==
    /\ seq = [s \in SessionObjs |-> 0]
    /\ slock = [s \in SessionObjs |-> NoThread]
    /\ rlock = NoThread
    /\ sessions = [i \in Ids |-> NoSession]
    /\ sstate = [s \in SessionObjs |-> "started"]
    /\ th = [t \in Threads |-> IdleThread]
    /\ hist = [s \in SessionObjs |-> <<>>]
    /\ BuilderIdle
    /\ GlobalInit
    /\ TextIdle

SeqNext ==
    \E t \in Threads :
        \/ \E s \in SessionObjs : CallNextSeq(t, s)
        \/ \E s \in SessionObjs : CallMessageId(t, s)
        \/ NsStore(t)
        \/ MidFormat(t)

SpecSeq == SeqInit /\ [][SeqNext]_vars

\* threads using the registry and the sessions' own methods together
MaxCalls == 4         \* next_seq calls made in a run, all operations together

CallBudget(k) == Issued + Pending + k <= MaxCalls

\* the steps of an operation that is under way
Continue(t) ==
    \/ SsAcquire(t)
    \/ SsInsert(t)
    \/ GsReturn(t)
    \/ NsAcquire(t)
    \/ NsStore(t)
    \/ MidFormat(t)
    \/ \E c \in ClaimConfInputs : CcBuild(t, c)
    \/ EsBuild(t)
    \/ EsAcquire(t)
    \/ EsPop(t)

ThreadsNext ==
    \E t \in Threads :
        \/ \E s \in SessionObjs : CallStartSession(t, s)
        \/ \E sid \in Ids : CallGetSession(t, sid)
        \/ \E s \in SessionObjs : CallBudget(1) /\ CallNextSeq(t, s)
        \/ \E s \in SessionObjs : CallBudget(1) /\ CallMessageId(t, s)
        \/ \E s \in SessionObjs : CallBudget(2) /\ CallCreateClaim(t, s)
        \/ \E s \in SessionObjs : CallBudget(2) /\ CallEndSession(t, s)
        \/ Continue(t)

\* every thread is scheduled again and again, and a thread waiting for a lock
\* that is free again and again obtains it
FairScheduling == \A t \in Threads : SF_vars(Continue(t))

SpecThreads == Init /\ [][ThreadsNext]_vars /\ FairScheduling

\* threads using the registry and the sessions, with the calls whose
\* make_message raises kept apart: the thread is back at "idle" and keeps, for
\* the properties, what was raised (res), the session (s), the id the call had
\* formatted (id), the counter as it stood before the call's first increment
\* (c0), and whether the call's two numbers are the last two handed out (alone)
MaxCounted == 3       \* next_seq calls made in a run, all operations together

CountedBudget(k) == Issued + Pending + k <= MaxCounted

RaisedIn(t, err) ==
    [IdleThread EXCEPT !.res = RaiseRes(err), !.s = th[t].s, !.id = th[t].id,
                       !.c0 = hist[th[t].s][th[t].own].v - 1,
                       !.alone = th[t].own = Len(hist[th[t].s]) - 1]

\* a create_claim that gives back the two numbers when make_message raises
CcRaiseRollBack(t) ==
    /\ th[t].pc = "cc_build"
    /\ ClaimResult(t, ConfBadStr).k = "raise"
    /\ seq' = [seq EXCEPT ![th[t].s] = @ - 2]
    /\ th' = [th EXCEPT ![t] = RaisedIn(t, ClaimResult(t, ConfBadStr).err)]
    /\ UNCHANGED <<slock, rlock, sessions, sstate, hist>>
    /\ UNCHANGED <<bvars, xvars>>

\* create_claim with a confidence float() cannot convert: make_message raises
\* and the exception leaves create_claim
CcRaise(t) ==
    /\ th[t].pc = "cc_build"
    /\ ClaimResult(t, ConfBadStr).k = "raise"
    /\ th' = [th EXCEPT ![t] = RaisedIn(t, ClaimResult(t, ConfBadStr).err)]
    /\ UNCHANGED <<seq, slock, rlock, sessions, sstate, hist>>
    /\ UNCHANGED <<bvars, xvars>>

\* end_session whose message fails validation: make_message raises ValueError
\* (runtime.py 171-173) and the exception leaves end_session before the
\* with-block of lines 121-122.  The arguments end_session passes satisfy the
\* semantic rules, so only the structural step can fail, on the fields the
\* session supplies (sender, content, session_id); the schema file is not part
\* of the sources, and whether it fails is left open here.
EsReject(t) ==
    /\ th[t].pc = "es_build"
    /\ th' = [th EXCEPT ![t] =
                RaisedIn(t, "VLP validation failed: the message does not match the schema")]
    /\ UNCHANGED <<seq, slock, rlock, sessions, sstate, hist>>
    /\ UNCHANGED <<bvars, xvars>>

CountedNext ==
    \E t \in Threads :
        \/ \E s \in SessionObjs : CallStartSession(t, s)
        \/ SsAcquire(t)
        \/ SsInsert(t)
        \/ \E sid \in Ids : CallGetSession(t, sid)
        \/ GsReturn(t)
        \/ \E s \in SessionObjs : CountedBudget(1) /\ CallNextSeq(t, s)
        \/ \E s \in SessionObjs : CountedBudget(1) /\ CallMessageId(t, s)
        \/ \E s \in SessionObjs : CountedBudget(2) /\ CallCreateClaim(t, s)
        \/ \E s \in SessionObjs : CountedBudget(2) /\ CallEndSession(t, s)
        \/ NsAcquire(t)
        \/ NsStore(t)
        \/ MidFormat(t)
        \/ CcBuild(t, ConfNum(HighConfidence))
        \/ CcRaise(t)
        \/ EsBuild(t)
        \/ EsReject(t)
        \/ EsAcquire(t)
        \/ EsPop(t)

SpecCounters == Init /\ [][CountedNext]_vars

\* make_message(type_, sender, content, **kw) called with the current arguments;
\* a dict passed as safety is the caller's object and is changed in place
Build ==
    LET r == make_message(args.type, CallKw)
    IN  /\ bpc \in {"input", "built"}
        /\ calls < MaxBuilds
        /\ out' = r
        /\ heap0' = heap
        /\ heap' = IF args.safety = "obj" THEN r.obj ELSE heap
        /\ bpc' = "built"
        /\ calls' = calls + 1
        /\ UNCHANGED <<args, vres>>
        /\ UNCHANGED <<svars, xvars>>

\* validate_vlp(msg) on a message assembled by hand
ValidateRaw ==
    /\ bpc = "input"
    /\ vres' = validate_vlp(RawMessage)
    /\ bpc' = "validated"
    /\ UNCHANGED <<args, heap, heap0, out, calls>>
    /\ UNCHANGED <<svars, xvars>>

\* _semantic_validate(msg) on a message assembled by hand
ValidateSemantic ==
    /\ bpc = "input"
    /\ vres' = semantic_validate(RawMessage)
    /\ bpc' = "semantic"
    /\ UNCHANGED <<args, heap, heap0, out, calls>>
    /\ UNCHANGED <<svars, xvars>>

\* validate_vlp(msg) on the message make_message returned
ValidateBuilt ==
    /\ bpc = "built"
    /\ out.ok
    /\ vres' = validate_vlp(out.msg)
    /\ bpc' = "revalidated"
    /\ UNCHANGED <<args, heap, heap0, out, calls>>
    /\ UNCHANGED <<svars, xvars>>

BuildInit ==
    /\ SessionsInit
    /\ bpc = "input"
    /\ args \in [type : TypeInputs, confidence : ConfInputs, provenance : ProvInputs,
                 safety : SafetyKinds, refers_to : RefInputs]
    /\ heap \in SafetyObjects
    /\ args.safety # "obj" => heap = DefaultSafety
    /\ heap0 = heap
    /\ out = NoOut
    /\ vres = Ok
    /\ calls = 0
    /\ GlobalInit
    /\ TextIdle

BuildNext == Build \/ ValidateRaw \/ ValidateSemantic \/ ValidateBuilt

SpecBuild == BuildInit /\ [][BuildNext]_vars

\* threads of one process calling get_registry()
GlobalSpecInit == SessionsInit /\ BuilderIdle /\ GlobalInit /\ TextIdle

SpecGlobal == GlobalSpecInit /\ [][GlobalNext]_vars

\* a caller passing keywords to make_message
KeywordsSpecInit == SessionsInit /\ BuilderIdle /\ GlobalInit /\ KeywordsInit

SpecKeywords == KeywordsSpecInit /\ [][KeywordsNext]_vars

\* a caller constructing an AgentSession
SessionIdSpecInit == SessionsInit /\ BuilderIdle /\ GlobalInit /\ SessionIdInit

SpecSessionId == SessionIdSpecInit /\ [][GenerateSessionId]_vars

\* a caller writing messages with to_ndjson and reading them back
NdjsonSpecInit == SessionsInit /\ BuilderIdle /\ GlobalInit /\ NdjsonInit

SpecNdjson == NdjsonSpecInit /\ [][NdjsonNext]_vars

(***************************************************************************)
(* Properties of AgentSession.next_seq and message_id (SpecSeq)            *)
(***************************************************************************)

\* C1: in every session the k-th next_seq call to complete returns k: the calls
\* made so far returned exactly 1..N, each once, every value greater than all
\* the values returned before it, and the counter stands at N, however the
\* threads interleave.
NextSeqExactlyOnce ==
    \A s \in SessionObjs :
        /\ \A i \in 1..Len(hist[s]) : hist[s][i].v = i
        /\ \A i, j \in 1..Len(hist[s]) : i < j => hist[s][i].v < hist[s][j].v
        /\ seq[s] = Len(hist[s])

\* three calls on one session have returned and two more threads are inside
\* next_seq on that session, one of them holding the lock
NextSeqContended ==
    \E s \in SessionObjs :
        /\ Len(hist[s]) >= 3
        /\ \E i \in 1..Len(hist[s]) : hist[s][i].mid
        /\ \E i \in 1..Len(hist[s]) : ~hist[s][i].mid
        /\ \E t \in Threads : th[t].pc = "ns_store" /\ th[t].s = s
        /\ \E t \in Threads : th[t].pc = "mid_format" /\ th[t].s = s

\* C2: the number in an id message_id returns is the value its own increment
\* gave, so no two next_seq or message_id calls on one session return or embed
\* the same number, whatever the interleaving; and two message_id calls with no
\* other call on the session between them embed consecutive numbers.
MessageIdOwnNumber ==
    \A s \in SessionObjs :
        /\ \A i \in 1..Len(hist[s]) :
              hist[s][i].out # 0 => hist[s][i].out = hist[s][i].v
        /\ \A i, j \in 1..Len(hist[s]) :
              (i # j /\ hist[s][i].out # 0) => hist[s][i].out # hist[s][j].out
        /\ \A i \in 1..(Len(hist[s]) - 1) :
              (/\ hist[s][i].mid /\ hist[s][i].out # 0
               /\ hist[s][i + 1].mid /\ hist[s][i + 1].out # 0)
                  => hist[s][i + 1].out = hist[s][i].out + 1

\* a session has given out two ids, and a next_seq call completed between the
\* increment of the first id and its formatting
MessageIdInterleaved ==
    \E s \in SessionObjs : \E i, j \in 1..Len(hist[s]) :
        /\ i < j
        /\ hist[s][i].mid /\ hist[s][i].out # 0
        /\ hist[s][j].mid /\ hist[s][j].out # 0
        /\ \E k \in 1..Len(hist[s]) : i < k /\ ~hist[s][k].mid

(***************************************************************************)
(* Properties of make_message and validate_vlp (SpecBuild)                 *)
(***************************************************************************)

\* the last make_message call returned a message
Returned == bpc \in {"built", "revalidated"} /\ out.ok
\* the last make_message call raised
Raised == bpc = "built" /\ ~out.ok

IssueCode == "missing_provenance_high_confidence"

\* provenance as the caller passed it is empty: absent, None or []
EmptyProvenance(p) == p.k \in {"absent", "none"} \/ (p.k = "list" /\ p.v = <<>>)

\* the returned message has confidence >= 0.9 and empty provenance
HighWithoutProvenance ==
    /\ Returned
    /\ out.msg.confidence.v >= HighConfidence
    /\ out.msg.provenance.v = <<>>

\* the caller passed a safety dict whose level was already "review"
SuppliedReview == args.safety = "obj" /\ heap0.hasLevel /\ heap0.level = "review"

\* C3 as stated: every returned message with confidence >= 0.9 and empty
\* provenance has safety.level review and carries the issue
\* missing_provenance_high_confidence, whatever safety the caller supplied.
EscalationAlwaysRecorded ==
    HighWithoutProvenance =>
        /\ out.msg.safety.o.level = "review"
        /\ HasIssue(out.msg.safety.o, IssueCode)

\* C3: every returned message with confidence >= 0.9 and empty provenance has
\* safety.level review; it carries the issue missing_provenance_high_confidence
\* whenever the safety the caller supplied (none, a non-object, a dict without
\* level, level safe or another level) did not already have level review; a
\* supplied dict with level review comes back with the issues it came with.
EscalationRecordedUnlessReview ==
    HighWithoutProvenance =>
        /\ out.msg.safety.o.level = "review"
        /\ ~SuppliedReview => HasIssue(out.msg.safety.o, IssueCode)
        /\ SuppliedReview =>
              (HasIssue(out.msg.safety.o, IssueCode) <=> HasIssue(heap0, IssueCode))

\* a message was returned for confidence >= 0.9, no provenance and a caller's
\* dict with level safe, and the dict now holds level review and the issue
EscalatedCallerDict ==
    /\ HighWithoutProvenance
    /\ args.safety = "obj" /\ heap0.hasLevel /\ heap0.level = "safe"
    /\ heap.level = "review" /\ HasIssue(heap, IssueCode)

\* C4: every returned message with confidence >= 0.9 and non-empty provenance
\* has safety.level safe and no missing_provenance_high_confidence issue when
\* the caller supplied no safety dict, and has the caller's level, unchanged,
\* when the caller supplied one.
EarnedConfidenceStaysSafe ==
    (Returned /\ out.msg.confidence.v >= HighConfidence /\ out.msg.provenance.v # <<>>) =>
        /\ args.safety # "obj" =>
              /\ out.msg.safety.o.level = "safe"
              /\ ~HasIssue(out.msg.safety.o, IssueCode)
        /\ (args.safety = "obj" /\ heap0.hasLevel) =>
              out.msg.safety.o.level = heap0.level

\* a message with confidence >= 0.9 and provenance was returned to a caller who
\* passed no safety
EarnedConfidenceReturned ==
    /\ Returned
    /\ out.msg.confidence.v >= HighConfidence
    /\ out.msg.provenance.v # <<>>
    /\ args.safety = "absent"
    /\ out.msg.safety.o.level = "safe"

\* the call was for an evidence message (after strip and lower) and lacked
\* refers_to or provenance
EvidenceLacking ==
    /\ bpc = "built"
    /\ args.type.base = "evidence"
    /\ Falsy(args.refers_to) \/ EmptyProvenance(args.provenance)

\* the error names the missing field
NamesMissingField ==
    /\ Raised
    /\ Falsy(args.refers_to) => Mentions(out.err, "refers_to")
    /\ ~Falsy(args.refers_to) => Mentions(out.err, "provenance")

\* C5 as stated: a make_message call for type evidence without refers_to or
\* without provenance raises, for every confidence value, and the error text
\* names the missing field.
EvidenceErrorNamesFieldAlways == EvidenceLacking => NamesMissingField

\* C5: a make_message call for type evidence without refers_to or without
\* provenance raises whatever the confidence; when the confidence is absent or
\* one float() accepts, the error text names the missing field: refers_to when
\* refers_to is missing, provenance when only provenance is missing.
EvidenceErrorNamesField ==
    EvidenceLacking =>
        /\ Raised
        /\ (args.confidence.k = "absent" \/ ToFloat(args.confidence).ok) =>
              NamesMissingField

\* an evidence call with confidence 0.95 and neither refers_to nor provenance
\* has raised an error naming refers_to
EvidenceRejected ==
    /\ EvidenceLacking
    /\ args.type.upper
    /\ args.confidence = ConfNum(95)
    /\ Falsy(args.refers_to) /\ EmptyProvenance(args.provenance)
    /\ Raised /\ Mentions(out.err, "refers_to")

\* the invariants of a valid message
HoldsInvariants(m) ==
    /\ ~m.type.upper
    /\ m.confidence.k = "num"
    /\ m.type.base = "evidence" =>
          /\ ~Falsy(m.refers_to)
          /\ m.provenance.k = "list" /\ m.provenance.v # <<>>
    /\ m.type.base \in {"response", "correction"} => ~Falsy(m.refers_to)
    /\ (m.confidence.v >= HighConfidence /\ EmptyProvenance(m.provenance)) =>
          /\ m.safety.k = "obj"
          /\ m.safety.o.hasLevel /\ m.safety.o.level = "review"

\* C6: a message validate_vlp accepts, and so every message make_message
\* returns, has a lowercase type, a numeric confidence, refers_to and provenance
\* when it is evidence, refers_to when it is a response or correction, and
\* safety.level review when its confidence is >= 0.9 and its provenance empty;
\* and validate_vlp accepts every message make_message returned.
ValidMessagesHoldInvariants ==
    /\ (bpc = "validated" /\ vres.ok) => HoldsInvariants(RawMessage)
    /\ Returned => HoldsInvariants(out.msg)
    /\ bpc = "revalidated" => vres = Ok

\* make_message returned a response with confidence >= 0.9 and no provenance,
\* and validate_vlp has accepted it
BuiltMessageRevalidated ==
    /\ bpc = "revalidated"
    /\ vres.ok
    /\ out.msg.type.base = "response"
    /\ out.msg.confidence.v >= HighConfidence
    /\ out.msg.provenance.v = <<>>

EndingAlone(t) ==
    /\ th[t].op = "end_session"
    /\ th[t].pc \in {"es_acquire", "es_pop"}
    /\ th[t].alone

\* C8: when end_session runs on a session whose counter is c and no other
\* caller uses the session meanwhile, the session_context message it returns
\* has id number c+1, seq c+2 and payload.total_messages c+2, and c+2 is the
\* counter's value as end_session returns; after two create_claim calls on a
\* fresh session (c = 4) total_messages is 6.
EndSessionCounts ==
    \A t \in Threads :
        EndingAlone(t) =>
            /\ th[t].res.msg.type = Plain("session_context")
            /\ ParseInt(th[t].res.msg.id.digits) = th[t].c0 + 1
            /\ th[t].res.msg.seq = th[t].c0 + 2
            /\ th[t].res.msg.total = th[t].c0 + 2
            /\ seq[th[t].s] = th[t].c0 + 2
            /\ th[t].c0 = 4 => th[t].res.msg.total = 6

\* end_session is about to return its message for a session on which exactly
\* two create_claim calls were made before: total_messages is 6
EndSessionAfterTwoClaims ==
    \E t \in Threads :
        /\ EndingAlone(t)
        /\ th[t].pc = "es_pop"
        /\ sstate[th[t].s] = "started"
        /\ th[t].c0 = 4
        /\ Len(hist[th[t].s]) = 6
        /\ th[t].res.msg.total = 6

\* C9: once end_session has returned a message for a session, the registry has
\* no entry for the session's id and every get_session of that id returns
\* None, in that state and in every state after it.
EndedSessionsAbsent ==
    \A s \in SessionObjs :
        sstate[s] = "ended" =>
            /\ sessions[SessionId(s)] = NoSession
            /\ \A t \in Threads :
                  (th[t].pc = "gs_return" /\ th[t].sid = SessionId(s))
                      => th[t].res = SessionRes(NoSession)

\* a get_session of an ended session's id is about to return None, while the
\* other session is registered
LookupAfterEnd ==
    \E s \in SessionObjs, t \in Threads :
        /\ sstate[s] = "ended"
        /\ th[t].pc = "gs_return" /\ th[t].sid = SessionId(s)
        /\ th[t].res = SessionRes(NoSession)
        /\ \E r \in SessionObjs : sessions[SessionId(r)] = r

\* what get_session returns, in the states where it is about to return
LookupResults ==
    \A t \in Threads :
        th[t].pc = "gs_return" =>
            /\ th[t].res.k = "session"
            /\ \A s \in SessionObjs :
                  /\ (th[t].sid = SessionId(s) /\ sstate[s] = "started")
                        => th[t].res.s = s
                  /\ (th[t].sid = SessionId(s)
                        /\ sstate[s] \in {"unborn", "partial", "constructed"})
                        => th[t].res.s = NoSession
                  /\ th[t].res.s = s =>
                        /\ sstate[s] \notin {"unborn", "partial"}
                        /\ th[t].sid = SessionId(s)
            /\ th[t].sid = UnknownId => th[t].res.s = NoSession

\* the steps a thread takes in get_session leave the registry map and the
\* counters alone
LookupStep ==
    \A t \in Threads :
        (th'[t] # th[t] /\ (th[t].op = "get_session" \/ th'[t].op = "get_session"))
            => (sessions' = sessions /\ seq' = seq)

\* C10: from the return of start_session until end_session removes the session,
\* every get_session of its id, from any thread, returns that session object,
\* fully constructed; get_session of an id never registered returns None; and
\* get_session changes neither the registry map nor any session counter.
GetSessionPureLookup == []LookupResults /\ [][LookupStep]_vars

\* a get_session is about to return a registered session while another thread
\* is constructing a session that is not yet registered
LookupDuringStart ==
    \E t, u \in Threads, s \in SessionObjs :
        /\ th[t].pc = "gs_return" /\ th[t].res.s = s /\ sstate[s] = "started"
        /\ th[u].pc = "ss_acquire" /\ sstate[th[u].s] = "partial"

(***************************************************************************)
(* Properties of get_registry (SpecGlobal)                                 *)
(***************************************************************************)

\* C11: every get_registry call of the process returns the same instance, also
\* when threads make their first calls concurrently: the accessor creates at
\* most one AgentSessionRegistry and no two calls ever return different ones.
OneRegistry ==
    /\ made <= 1
    /\ \A t, u \in Threads :
          \A i \in 1..Len(gth[t].got), j \in 1..Len(gth[u].got) :
              gth[t].got[i] = gth[u].got[j]

(***************************************************************************)
(* Properties of to_ndjson and from_ndjson (SpecNdjson)                    *)
(***************************************************************************)

\* C12: for every sequence of messages, the empty one and messages whose
\* strings contain line-separator characters included,
\* from_ndjson(to_ndjson(messages)) gives the same number of messages, in the
\* same order, with the same field values.
NdjsonRoundTrip ==
    tout.kind = "parsed" => (tout.r.ok /\ tout.r.v = tin.v)

(***************************************************************************)
(* Properties of the keyword normalization (SpecKeywords)                  *)
(***************************************************************************)

\* a normalized keyword: not empty, no uppercase letter, no surrounding blank
CleanKeyword(k) ==
    /\ k # <<>>
    /\ \A i \in 1..Len(k) : k[i] # "A"
    /\ k[1] # " " /\ k[Len(k)] # " "

\* C13: the keywords make_message puts in a message have no duplicate, no
\* empty entry and no entry with an uppercase letter or surrounding whitespace,
\* and normalizing them again gives the same sequence.
KeywordsIdempotent ==
    tout.kind = "keywords" =>
        /\ \A i \in 1..Len(tout.v) : CleanKeyword(tout.v[i])
        /\ \A i, j \in 1..Len(tout.v) : i # j => tout.v[i] # tout.v[j]
        /\ tout.n = 2 => tout.v = tout.prev

\* two different entries of the caller's list became one keyword, and the
\* result went through a second call
KeywordsMerged ==
    /\ tout.kind = "keywords" /\ tout.n = 2
    /\ Len(tin.v) = 2 /\ tin.v[1] # tin.v[2]
    /\ tin.v[1].str /\ tin.v[2].str
    /\ Len(tout.v) = 1

(***************************************************************************)
(* Properties of the session id (SpecSessionId)                            *)
(***************************************************************************)

\* the slug as described: the name lowercased, a leading "the " removed, spaces
\* replaced by hyphens, the first 12 characters
DescribedSlug(agent_name) ==
    LET low == lower(agent_name)
        the == <<"t", "h", "e", " ">>
        rest == IF StartsWith(low, the) THEN SubSeq(low, Len(the) + 1, Len(low)) ELSE low
    IN  Prefix(replace(rest, <<" ">>, <<"-">>), SlugWidth)

\* C14: a new session's id is S-<date>-<slug>-<random6> with a date field of 8
\* characters; for the agent name "The Observer" it has exactly four fields
\* between hyphens, the third being observer; and the slug is the name
\* lowercased, with only a leading "the " removed, spaces replaced by hyphens,
\* cut to 12 characters.
SessionIdFormat ==
    tout.kind = "session_id" =>
        LET fields == split(tout.id, "-")
            slug == DescribedSlug(tin.name)
            date == SubSeq(tout.id, 3, 10)
        IN  /\ Len(fields[2]) = 8
            /\ tout.id = <<"S", "-">> \o date \o <<"-">> \o slug \o <<"-">> \o tin.short_id
            /\ tin.name = TheObserver =>
                  (Len(fields) = 4 /\ fields[3] = <<"o", "b", "s", "e", "r", "v", "e", "r">>)

\* C15: a build call, successful or failed, leaves every value the caller
\* supplied as it was: the caller's safety object holds after the call what it
\* held before it, so a second build with the same object starts from the
\* caller's original value.
BuildLeavesInputs ==
    (bpc = "built" /\ args.safety = "obj") => heap = heap0

(***************************************************************************)
(* Properties of create_claim (Spec)                                       *)
(***************************************************************************)

\* the numbers of session s were handed out to one composite call after the
\* other: an id's number, then the seq of the same call, and so on
OneCallAtATime(s) ==
    /\ Len(hist[s]) % 2 = 0
    /\ \A k \in 1..Len(hist[s]) : hist[s][k].mid = (k % 2 = 1)

\* only create_claim has been called on s
OnlyClaimsOn(s) ==
    /\ sstate[s] = "started"
    /\ \A u \in Threads : th[u].op = "end_session" => th[u].s # s

\* C16: a create_claim call takes two numbers of the session counter, the first
\* for the id and the second for seq, so the id's number is below the message's
\* seq; when no other call interleaves, the i-th create_claim on a fresh session
\* returns id number 2i-1 and seq 2i.
CreateClaimTakesTwo ==
    \A t \in Threads : \A conf \in ClaimConfInputs :
        (th[t].op = "create_claim" /\ th[t].pc = "cc_build"
            /\ ClaimResult(t, conf).k = "msg") =>
            LET s == th[t].s
                m == ClaimResult(t, conf).msg
                idn == ParseInt(m.id.digits)
                i == Len(hist[s]) \div 2
            IN  /\ th[t].todo = 0
                /\ seq[s] = Len(hist[s])
                /\ hist[s][th[t].own].mid /\ hist[s][th[t].own].v = idn
                /\ \E j \in (th[t].own + 1)..Len(hist[s]) :
                      ~hist[s][j].mid /\ hist[s][j].v = m.seq
                /\ idn < m.seq
                /\ (OneCallAtATime(s) /\ OnlyClaimsOn(s) /\ th[t].own = Len(hist[s]) - 1) =>
                      (idn = 2 * i - 1 /\ m.seq = 2 * i)

\* the second create_claim on a session, after the first has returned, is about
\* to return its message
SecondClaim ==
    \E t \in Threads :
        /\ th[t].op = "create_claim" /\ th[t].pc = "cc_build"
        /\ ClaimResult(t, ConfNum(90)).k = "msg"
        /\ Len(hist[th[t].s]) = 4
        /\ OneCallAtATime(th[t].s) /\ OnlyClaimsOn(th[t].s)
        /\ th[t].own = 3

(***************************************************************************)
(* Properties of the locks (SpecThreads)                                   *)
(***************************************************************************)

HoldsSessionLock(t) == \E s \in SessionObjs : slock[s] = t

\* no thread holds the registry's lock and a session's lock together, and a
\* thread in make_message holds neither
LockDiscipline ==
    \A t \in Threads :
        /\ ~(rlock = t /\ HoldsSessionLock(t))
        /\ th[t].pc \in {"cc_build", "es_build"} => (rlock # t /\ ~HoldsSessionLock(t))
        /\ th[t].pc = "idle" => (rlock # t /\ ~HoldsSessionLock(t))

\* while an operation is under way, some thread can take a step
NoDeadlock ==
    (\E t \in Threads : ~Resting(t)) => \E t \in Threads : ENABLED Continue(t)

\* C17: with threads running start_session, get_session, end_session,
\* create_claim, next_seq and message_id, no thread ever holds the registry's
\* lock and a session's lock at once, no thread runs the builder while holding a
\* lock, the system never deadlocks, and under fair scheduling every operation
\* that has started returns and every lock taken is released.
LocksNeverNestAndCallsReturn ==
    /\ []LockDiscipline
    /\ []NoDeadlock
    /\ \A t \in Threads : (~Resting(t)) ~> Resting(t)
    /\ (rlock # NoThread) ~> (rlock = NoThread)
    /\ \A s \in SessionObjs : (slock[s] # NoThread) ~> (slock[s] = NoThread)

\* one thread holds the registry's lock in end_session while another holds the
\* lock of the same session inside message_id
BothLocksHeld ==
    \E t, u \in Threads :
        /\ th[t].op = "end_session" /\ th[t].pc = "es_pop" /\ rlock = t
        /\ th[u].op = "message_id" /\ th[u].pc = "ns_store"
        /\ th[u].s = th[t].s /\ slock[th[u].s] = u

(***************************************************************************)
(* Properties of end_session among other calls (SpecThreads)               *)
(***************************************************************************)

\* C18: the session_context message end_session returns is the last of its
\* session: when end_session returns it, no number handed out as a seq of the
\* session is greater than the message's seq, and its total_messages is the
\* value of the session counter.
EndSessionTerminal ==
    \A t \in Threads :
        (th[t].op = "end_session" /\ th[t].pc = "es_pop") =>
            LET s == th[t].s
                m == th[t].res.msg
            IN  /\ m.total = seq[s]
                /\ \A k \in 1..Len(hist[s]) : ~hist[s][k].mid => hist[s][k].v <= m.seq

(***************************************************************************)
(* Properties of the order of validation (SpecBuild)                       *)
(***************************************************************************)

\* the semantic rules as an ordered list: whether the rule fails on msg, and the
\* error it gives
SemanticRules(msg) ==
    LET base == msg.type.base
        conf == msg.confidence
        noRef == msg.refers_to.k = "none" \/ msg.refers_to.v = ""
        noProv == msg.provenance.k # "list" \/ msg.provenance.v = <<>>
        level == IF msg.safety.k = "obj" /\ msg.safety.o.hasLevel
                    /\ msg.safety.o.level # ""
                 THEN msg.safety.o.level ELSE "safe"
        number == IF conf.k \in {"num", "numstr"} THEN conf.v ELSE 0
    IN  << [fails |-> msg.type.upper, err |-> "type must be lowercase"],
           [fails |-> conf.k \in {"absent", "none"}, err |-> "confidence is required"],
           [fails |-> conf.k = "badstr", err |-> "confidence must be a number"],
           [fails |-> base = "evidence" /\ noRef,
            err |-> "evidence messages must include refers_to"],
           [fails |-> base = "evidence" /\ noProv,
            err |-> "evidence messages must include non-empty provenance"],
           [fails |-> base \in {"response", "correction"} /\ noRef,
            err |-> base \o " messages must include refers_to"],
           [fails |-> number >= HighConfidence /\ noProv /\ level # "review",
            err |-> "confidence >= 0.9 requires provenance or safety.level=review"] >>

\* the error of the first rule of the list that fails, or success
FirstFailure(msg) ==
    LET rules == SemanticRules(msg)
        failing == {i \in 1..Len(rules) : rules[i].fails}
    IN  IF failing = {} THEN Ok
        ELSE Fail(rules[CHOOSE i \in failing : \A j \in failing : i <= j].err)

\* an evidence message with confidence >= 0.9 and neither refers_to nor provenance
EvidenceHighLackingBoth ==
    /\ args.type.base = "evidence" /\ ~args.type.upper
    /\ args.confidence.k \in {"num", "numstr"} /\ args.confidence.v >= HighConfidence
    /\ Falsy(args.refers_to)
    /\ args.provenance \in {PAbsent, PList(<<>>)}

\* C19: validate gives the structural step's error when that step fails and
\* runs the semantic rules only when it passes; the semantic step checks, in
\* this order, lowercase type, confidence present, confidence numeric, the
\* evidence rule (refers_to before provenance), the response/correction rule
\* and the high-confidence rule, and returns the error of the first rule that
\* fails: an evidence message with confidence >= 0.9 lacking refers_to and
\* provenance gets the refers_to error.
FirstFailingRuleDecides ==
    /\ bpc = "semantic" =>
          /\ vres = FirstFailure(RawMessage)
          /\ EvidenceHighLackingBoth =>
                vres = Fail("evidence messages must include refers_to")
    /\ bpc = "validated" =>
          IF StructuralCheck(RawMessage).ok
          THEN vres = FirstFailure(RawMessage)
          ELSE vres = StructuralCheck(RawMessage)

\* the semantic step has rejected such an evidence message
EvidenceHighRejected ==
    /\ bpc = "semantic"
    /\ EvidenceHighLackingBoth
    /\ ~vres.ok

(***************************************************************************)
(* Properties of escalation before validation (SpecBuild)                  *)
(***************************************************************************)

HighConfidenceError ==
    "VLP validation failed: confidence >= 0.9 requires provenance or safety.level=review"

\* the safety level the validator reads in a message
LevelRead(m) ==
    IF m.safety.k = "obj" /\ m.safety.o.hasLevel /\ m.safety.o.level # ""
    THEN m.safety.o.level ELSE "safe"

\* C20: make_message escalates before it validates, so no call is rejected by
\* the validator's high-confidence rule, whatever the confidence, the
\* provenance (absent, None, a scalar, an empty or non-empty list) and the
\* safety supplied; the message returned has non-empty provenance, or
\* confidence < 0.9, or safety.level review.
NeverRejectedForHighConfidence ==
    bpc = "built" =>
        /\ out.err # HighConfidenceError
        /\ out.ok =>
              \/ out.msg.provenance.v # <<>>
              \/ out.msg.confidence.v < HighConfidence
              \/ LevelRead(out.msg) = "review"

\* a call with confidence exactly 0.9, no provenance and no review level was
\* escalated and its message returned
EscalatedAtThreshold ==
    /\ bpc = "built" /\ calls = 1 /\ out.ok
    /\ args.confidence = ConfNum(HighConfidence)
    /\ args.provenance \in {PAbsent, PNone, PList(<<>>)}
    /\ args.safety = "absent"
    /\ out.msg.provenance.v = <<>>
    /\ LevelRead(out.msg) = "review"

(***************************************************************************)
(* Properties of the session counters (SpecCounters)                       *)
(***************************************************************************)

\* a session nobody has been handed yet has counter 0
StartsAtZero ==
    \A s \in SessionObjs :
        sstate[s] \in {"unborn", "partial", "constructed"} => seq[s] = 0

\* a step that changes a counter is the store of next_seq, made by a thread that
\* runs next_seq on that session and holds its lock, it adds one, and it changes
\* no other session's counter
CounterStep ==
    \A s \in SessionObjs :
        seq'[s] # seq[s] =>
            /\ seq'[s] = seq[s] + 1
            /\ \E t \in Threads :
                  /\ th[t].op \in SessionOps /\ th[t].pc = "ns_store"
                  /\ th[t].s = s /\ slock[s] = t
                  /\ th'[t] # th[t]
            /\ \A r \in SessionObjs \ {s} : seq'[r] = seq[r]

\* a step of start_session, of get_session, or of the removal in end_session
\* changes no counter
RegistryStep ==
    (\E t \in Threads :
        /\ th'[t] # th[t]
        /\ \/ th[t].pc \in {"ss_acquire", "ss_insert", "gs_return", "es_acquire", "es_pop"}
           \/ th'[t].op \in {"start_session", "get_session"})
    => seq' = seq

\* C21: every session counter starts at 0, never decreases, changes only by +1
\* and only in next_seq or message_id on the same session; start_session,
\* get_session and the removal from the registry's dict change no counter, and
\* work on one session leaves the other sessions' counters alone.
CountersOnlyCountUp ==
    /\ []StartsAtZero
    /\ [][CounterStep /\ RegistryStep]_vars

\* a first session was used and ended and a second one started and used: the
\* counters stand at 2 and 1
TwoSessionsCounted ==
    /\ sstate[1] = "ended" /\ seq[1] = 2
    /\ sstate[2] = "started" /\ seq[2] = 1

(***************************************************************************)
(* Properties of failed builds in the registry (SpecCounters)              *)
(***************************************************************************)

\* thread t leaves create_claim or end_session by the builder's exception
RaisesNow(t) ==
    /\ th[t].pc \in {"cc_build", "es_build"}
    /\ th'[t].pc = "idle" /\ th'[t].res.k = "raise"

\* the step in which the exception leaves the call changes neither the
\* registry's dict nor any counter or lock; the counter stands at least 2 above
\* its value before the call, and exactly 2 above when the call's two numbers
\* are the last two handed out
FailedBuildStep ==
    \A t \in Threads :
        RaisesNow(t) =>
            LET s == th[t].s
            IN  /\ sessions' = sessions /\ sstate' = sstate
                /\ seq' = seq /\ hist' = hist
                /\ rlock' = rlock /\ slock' = slock
                /\ rlock # t /\ slock[s] # t
                /\ th'[t].res.err # ""
                /\ seq'[s] >= th'[t].c0 + 2
                /\ th'[t].alone => seq'[s] = th'[t].c0 + 2
                /\ (th[t].op = "end_session" /\ sessions[SessionId(s)] = s) =>
                      DictGet(sessions', SessionId(s)) = s

\* after a failed call the numbers it took stay taken
RaisedState ==
    \A t \in Threads :
        (th[t].pc = "idle" /\ th[t].res.k = "raise") =>
            seq[th[t].s] >= th[t].c0 + 2

\* C22: when make_message raises inside end_session or create_claim, the
\* exception reaches the caller, the registry's dict is as it was (a session
\* being ended is still registered and get_session returns it), and the two
\* numbers taken for id and seq are not given back: the counter is 2 above its
\* value before the call.
FailedBuildKeepsNumbers ==
    /\ []RaisedState
    /\ [][FailedBuildStep]_vars

\* an end_session has failed; the session's counter is 2 above what it was, the
\* session is still in the dict and a get_session of its id is returning it
RejectedEndStillRegistered ==
    \E t, u \in Threads :
        /\ th[t].pc = "idle" /\ th[t].res.k = "raise" /\ th[t].id.prefix = "CTX"
        /\ seq[th[t].s] = th[t].c0 + 2
        /\ sessions[SessionId(th[t].s)] = th[t].s
        /\ th[u].pc = "gs_return" /\ th[u].sid = SessionId(th[t].s)
        /\ th[u].res = SessionRes(th[t].s)

====
